---- MODULE Spec2Model ----
(***************************************************************************)
(* Invoice financial calculation engine and the rate-modifier / invoice    *)
(* controllers of Invio-Freelancer.                                         *)
(*                                                                         *)
(* Units.  Money is counted in cents, so Math.round(n * 100) / 100 of the  *)
(* source is "round to the nearest integer, halves upwards" here.          *)
(* Intermediate (unrounded) values are exact fractions <<n, d>>, d > 0, of *)
(* a cent.  Percentages are whole percents, multipliers are hundredths     *)
(* (100 is 1.0x), the mileage rate is cents per mile.  An optional field   *)
(* that is absent (undefined / NULL) is the value undefined.               *)
(* The arithmetic is that of the real numbers: the representation error of *)
(* IEEE doubles is not modelled.                                           *)
(***************************************************************************)
EXTENDS Integers, Sequences, FiniteSets, TLC

\* ------------------------------------------------------------------ bounds
MaxCalcItems == 3
MaxQty == 1
MaxItems == 1
MaxModifiers == 2
MaxInvoices == 1
MaxAmount == 40
MaxLines == 2
MaxDocs == 2
MaxCalls == 2

\* ------------------------------------------------ absent values, constants
undefined == -999
NoId == -1
GhostId == 99
standard == 0
DefaultMileageRate == 70
DefaultMultiplier == 100
\* the non-finite numbers a division by zero leaves behind
NaN == -997
NegInfinity == -998

\* --------------------------------------------------------- exact fractions
Rat(n, d) == <<n, d>>
Int2Rat(i) == <<i, 1>>
RAdd(a, b) == <<a[1] * b[2] + b[1] * a[2], a[2] * b[2]>>
RSub(a, b) == <<a[1] * b[2] - b[1] * a[2], a[2] * b[2]>>
RMul(a, b) == <<a[1] * b[1], a[2] * b[2]>>
\* a / b for b # 0, keeping the denominator positive
RDiv(a, b) == IF b[1] > 0 THEN <<a[1] * b[2], a[2] * b[1]>>
              ELSE <<(0 - a[1]) * b[2], a[2] * (0 - b[1])>>
RLt(a, b) == a[1] * b[2] < b[1] * a[2]
RMax(a, b) == IF RLt(a, b) THEN b ELSE a
RMinLeft(a, b) == a
RMin(a, b) == IF RLt(b, a) THEN b ELSE a

\* Math.round: nearest integer, a half goes towards +infinity
MathRound(x) == (2 * x[1] + x[2]) \div (2 * x[2])

\* const r2 = (n) => Math.round(n * 100) / 100, in cents
r2(x) == MathRound(x)

\* x || 0 and x ?? 0 on an optional number
OrZero(x) == IF x = undefined THEN 0 ELSE x

RECURSIVE SumSeq(_)
SumSeq(s) == IF s = <<>> THEN 0 ELSE s[1] + SumSeq(Tail(s))

\* ----------------------------------------------- calculateTimeBasedLineTotal
\* (rate || 0) * (hours || 0) * (modifierMultiplier || 1)
\*   + (distance || 0) * (mileageRate || 0), rounded to cents
calculateTimeBasedLineTotal(rate, hours, modifierMultiplier, distance, mileageRate) ==
  LET mult == IF modifierMultiplier = 0 THEN DefaultMultiplier
              ELSE modifierMultiplier
      basePay == Rat(OrZero(rate) * OrZero(hours) * mult, 100)
      mileage == Int2Rat(OrZero(distance) * OrZero(mileageRate))
  IN r2(RAdd(basePay, mileage))

\* ------------------------------------------------------ discount resolution
\* let d = Number(discountAmount) || 0;
\* if (discountPercentage > 0) d = subtotal * (discountPercentage / 100);
\* d = Math.min(Math.max(d, 0), subtotal)
finalDiscountAmountFlatFirst(subtotal, discountPercentage, discountAmount) ==
  LET flat == Int2Rat(OrZero(discountAmount))
      d == IF OrZero(discountAmount) # 0 THEN flat
           ELSE Rat(subtotal * OrZero(discountPercentage), 100)
  IN RMin(RMax(d, Int2Rat(0)), Int2Rat(subtotal))
finalDiscountAmount(subtotal, discountPercentage, discountAmount) ==
  LET flat == Int2Rat(OrZero(discountAmount))
      d == IF OrZero(discountPercentage) > 0
           THEN Rat(subtotal * discountPercentage, 100)
           ELSE flat
  IN RMin(RMax(d, Int2Rat(0)), Int2Rat(subtotal))

\* items.map(it => (Number(it.quantity) || 0) * (Number(it.unitPrice) || 0))
lineGrosses(items) ==
  [i \in 1..Len(items) |-> OrZero(items[i].quantity) * OrZero(items[i].unitPrice)]

\* the share of a line that is not the last one: r2(final * (g / subtotal))
ProportionalShare(g, final, subtotal) ==
  r2(RDiv(RMul(final, Int2Rat(g)), Int2Rat(subtotal)))

\* the running variable "distributed" after the first k lines (k < n)
RECURSIVE distributed(_, _, _, _)
distributed(grosses, final, subtotal, k) ==
  IF k = 0 THEN 0
  ELSE distributed(grosses, final, subtotal, k - 1)
       + ProportionalShare(grosses[k], final, subtotal)

\* lineDiscounts of calculateInvoiceTotals (rounding mode "line", subtotal > 0)
lineDiscountsNoRemainder(grosses, final, subtotal) ==
  [i \in 1..Len(grosses) |-> ProportionalShare(grosses[i], final, subtotal)]
lineDiscounts(grosses, final, subtotal) ==
  [i \in 1..Len(grosses) |->
     IF i = Len(grosses)
     THEN r2(RSub(final, Int2Rat(distributed(grosses, final, subtotal, i - 1))))
     ELSE ProportionalShare(grosses[i], final, subtotal)]

\* lineDiscounts of calculatePerLineTotals: if (subtotal === 0) return 0
perLineDiscounts(grosses, final, subtotal) ==
  [i \in 1..Len(grosses) |->
     IF subtotal = 0 THEN 0
     ELSE IF i = Len(grosses)
     THEN r2(RSub(final, Int2Rat(distributed(grosses, final, subtotal, i - 1))))
     ELSE ProportionalShare(grosses[i], final, subtotal)]

Max0(x) == IF x < 0 THEN 0 ELSE x

\* --------------------------------------------------- calculateInvoiceTotals
\* rate = Math.max(0, Number(taxRate) || 0) / 100
TaxRateFraction(taxRate) == Rat(Max0(OrZero(taxRate)), 100)

\* net = rate > 0 ? afterDiscount / (1 + rate) : afterDiscount
ExtractNetMultiplied(afterDiscount, rate) ==
  IF rate[1] > 0 THEN RMul(afterDiscount, RAdd(Int2Rat(1), rate))
  ELSE afterDiscount
ExtractNet(afterDiscount, rate) ==
  IF rate[1] > 0 THEN RDiv(afterDiscount, RAdd(Int2Rat(1), rate))
  ELSE afterDiscount

\* one iteration of the per-line loop: <<r2(tax), r2(line total)>>
LineTaxAndTotal(gross, ld, rate, pricesIncludeTax) ==
  LET afterDiscount == Int2Rat(Max0(gross - ld))
  IN IF pricesIncludeTax
     THEN <<r2(RSub(afterDiscount, ExtractNet(afterDiscount, rate))),
            r2(afterDiscount)>>
     ELSE LET tax == RMul(afterDiscount, rate)
          IN <<r2(tax), r2(RAdd(afterDiscount, Int2Rat(r2(tax))))>>

calculateInvoiceTotals(items, discountPercentage, discountAmount, taxRate, pricesIncludeTax, roundingMode) ==
  LET rate == TaxRateFraction(taxRate)
      grosses == lineGrosses(items)
      subtotal == SumSeq(grosses)
      final == finalDiscountAmount(subtotal, discountPercentage, discountAmount)
      n == Len(items)
      lds == lineDiscounts(grosses, final, subtotal)
      perLine == [i \in 1..n |->
                    LineTaxAndTotal(grosses[i], lds[i], rate, pricesIncludeTax)]
      afterDiscount == RSub(Int2Rat(subtotal), final)
      totalModeTax == IF pricesIncludeTax
                      THEN r2(RSub(afterDiscount, ExtractNet(afterDiscount, rate)))
                      ELSE r2(RMul(afterDiscount, rate))
      totalModeTotal == IF pricesIncludeTax
                        THEN r2(afterDiscount)
                        ELSE r2(RAdd(afterDiscount, Int2Rat(totalModeTax)))
      lineMode == roundingMode = "line" /\ subtotal > 0
  IN [subtotal |-> r2(Int2Rat(subtotal)),
      discountAmount |-> r2(final),
      taxAmount |-> IF lineMode THEN SumSeq([i \in 1..n |-> perLine[i][1]])
                    ELSE totalModeTax,
      total |-> IF lineMode THEN SumSeq([i \in 1..n |-> perLine[i][2]])
                ELSE totalModeTotal]

\* ---------------------------------------------------- calculatePerLineTotals
\* rateSum = taxes.reduce((s, t) => s + (Number(t.percent) || 0), 0) / 100
rateSum(taxes) == Rat(SumSeq(taxes), 100)

\* net = afterDiscount; if (pricesIncludeTax && rateSum > 0) net /= 1 + rateSum
perLineNet(afterDiscount, taxes, pricesIncludeTax) ==
  IF pricesIncludeTax /\ rateSum(taxes)[1] > 0
  THEN RDiv(Int2Rat(afterDiscount), RAdd(Int2Rat(1), rateSum(taxes)))
  ELSE Int2Rat(afterDiscount)

\* amt = r2(net * p) for each tax entry of the line
itemTaxes(net, taxes) ==
  [j \in 1..Len(taxes) |->
     [percent |-> taxes[j], amount |-> r2(RMul(net, Rat(taxes[j], 100)))]]

\* summaryMap after the first j tax entries of a line have been added
RECURSIVE addToSummary(_, _, _, _)
addToSummary(summaryMap, net, its, j) ==
  IF j = 0 THEN summaryMap
  ELSE LET m == addToSummary(summaryMap, net, its, j - 1)
           key == its[j].percent
           s == IF key \in DOMAIN m THEN m[key] ELSE [taxable |-> 0, amount |-> 0]
           upd == [taxable |-> r2(RAdd(Int2Rat(s.taxable), net)),
                   amount |-> r2(Int2Rat(s.amount + its[j].amount))]
       IN [k \in DOMAIN m \cup {key} |-> IF k = key THEN upd ELSE m[k]]

\* the accumulators of the main loop after the first k items
RECURSIVE perLineLoop(_, _, _, _, _)
perLineLoop(items, grosses, lds, pricesIncludeTax, k) ==
  IF k = 0
  THEN [total |-> 0, taxAmount |-> 0, perItem |-> <<>>,
        summaryMap |-> [x \in {} |-> 0]]
  ELSE LET acc == perLineLoop(items, grosses, lds, pricesIncludeTax, k - 1)
           afterDiscount == Max0(grosses[k] - lds[k])
           taxes == items[k].taxes
           net == perLineNet(afterDiscount, taxes, pricesIncludeTax)
           its == itemTaxes(net, taxes)
           itemTaxSum == r2(Int2Rat(SumSeq([j \in 1..Len(its) |-> its[j].amount])))
       IN [total |-> IF pricesIncludeTax
                     THEN r2(Int2Rat(acc.total + afterDiscount))
                     ELSE r2(RAdd(Int2Rat(acc.total + itemTaxSum), net)),
           taxAmount |-> r2(Int2Rat(acc.taxAmount + itemTaxSum)),
           perItem |-> Append(acc.perItem, [taxable |-> r2(net), taxes |-> its]),
           summaryMap |-> addToSummary(acc.summaryMap, net, its, Len(its))]

MaxOf(S) == CHOOSE x \in S : \A y \in S : x >= y
MinOf(S) == CHOOSE x \in S : \A y \in S : x <= y

\* Array.from(summaryMap.entries()).map(...).sort((a, b) => a.percent - b.percent)
RECURSIVE sortedSummary(_)
sortedSummary(m) ==
  IF DOMAIN m = {} THEN <<>>
  ELSE LET p == MinOf(DOMAIN m)
       IN <<[percent |-> p, taxable |-> m[p].taxable, amount |-> m[p].amount]>>
          \o sortedSummary([k \in DOMAIN m \ {p} |-> m[k]])

calculatePerLineTotals(items, discountPercentage, discountAmount, pricesIncludeTax) ==
  LET grosses == lineGrosses(items)
      subtotal == SumSeq(grosses)
      final == finalDiscountAmount(subtotal, discountPercentage, discountAmount)
      lds == perLineDiscounts(grosses, final, subtotal)
      acc == perLineLoop(items, grosses, lds, pricesIncludeTax, Len(items))
  IN [subtotal |-> r2(Int2Rat(subtotal)),
      discountAmount |-> r2(final),
      taxAmount |-> acc.taxAmount,
      total |-> acc.total,
      perItem |-> acc.perItem,
      summary |-> sortedSummary(acc.summaryMap)]

\* ------------------------------------------------------------------- state
VARIABLES
  rate_modifiers,   \* table rate_modifiers: id -> [multiplier, is_default]
  nextModifierId,   \* generateUUID(): ids are fresh, never handed out twice
  settings,         \* table settings: key -> value, undefined when the key is unset
  invoices,         \* table invoices with its invoice_items: id -> row
  response,         \* the last call of a handler: what it was given and
                    \* what it returned or threw
  calcIn,           \* arguments of a direct call of the calculation functions
  calcOut,          \* what the calculation functions returned for calcIn
  pending           \* the calls of async handlers that are suspended at an
                    \* await, each with the values it holds in its locals

vars == <<rate_modifiers, nextModifierId, settings, invoices, response,
          calcIn, calcOut, pending>>
dbVars == <<rate_modifiers, nextModifierId, settings, invoices, response>>

\* the setting 'invoiceNumberPattern' is '' (seeded), or a pattern with one
\* {SEQ}: prefix is its text before {SEQ} with the date tokens filled in, rest
\* is its text after {SEQ}
NoPattern == [prefix |-> "", rest |-> <<>>]

\* migrations.sql: ('mileageRate', '0.70'), ('currency', 'USD') and the
\* modifier 'standard'; 'invoiceNumberPattern' is '' and no invoice prefix,
\* year flag or padding is set, so invoice numbers are of the legacy format
SeededDb ==
  /\ rate_modifiers = [id \in {standard} |->
                         [multiplier |-> DefaultMultiplier, is_default |-> TRUE]]
  /\ nextModifierId = 1
  /\ settings = [mileageRate |-> DefaultMileageRate,
                 currency |-> "USD",
                 invoiceNumberPattern |-> NoPattern,
                 defaultTaxRate |-> undefined,
                 defaultPricesIncludeTax |-> FALSE,
                 defaultRoundingMode |-> "line"]
  /\ invoices = [id \in {} |-> 0]
  /\ response = [op |-> "init"]

\* ------------------------------------- direct calls of the pure functions
UnitPrices == {1, 3}
TaxLists == {<<>>, <<50, 10>>}
\* <<discountPercentage, discountAmount>>: none, flat only, a percentage with
\* and without a flat amount, and values outside the sensible range
Discounts == {<<0, 0>>, <<0, 1>>, <<0, 2>>, <<50, 0>>, <<50, 2>>,
              <<0, -1>>, <<150, 1>>, <<-50, 1>>}
TaxRates == {0, 10, 50}
RoundingModes == {"line", "total"}

CalcItemPool ==
  {[quantity |-> q, unitPrice |-> p, taxes |-> t] :
     q \in 0..MaxQty, p \in UnitPrices, t \in TaxLists}

SeqsUpTo(S, n) == UNION {[1..k -> S] : k \in 0..n}

CalcInputs ==
  {[items |-> l, discountPercentage |-> d[1], discountAmount |-> d[2],
    taxRate |-> t, pricesIncludeTax |-> b, roundingMode |-> m] :
     l \in SeqsUpTo(CalcItemPool, MaxCalcItems), d \in Discounts,
     t \in TaxRates, b \in BOOLEAN, m \in RoundingModes}

NotCalled == [done |-> FALSE]

InitCalc ==
  /\ SeededDb
  /\ calcIn \in CalcInputs
  /\ calcOut = NotCalled
  /\ pending = <<>>

\* calculateInvoiceTotals(...) and calculatePerLineTotals(...) on calcIn; the
\* per-line discount shares, local to the functions, are recorded with the
\* results, and so is what calculateInvoiceTotals returns for the same
\* arguments in each rounding mode
Calculate ==
  /\ ~calcOut.done
  /\ LET grosses == lineGrosses(calcIn.items)
         subtotal == SumSeq(grosses)
         final == finalDiscountAmount(subtotal, calcIn.discountPercentage,
                                      calcIn.discountAmount)
     IN calcOut' =
          [done |-> TRUE,
           totals |-> calculateInvoiceTotals(calcIn.items,
                        calcIn.discountPercentage, calcIn.discountAmount,
                        calcIn.taxRate, calcIn.pricesIncludeTax,
                        calcIn.roundingMode),
           perLine |-> calculatePerLineTotals(calcIn.items,
                         calcIn.discountPercentage, calcIn.discountAmount,
                         calcIn.pricesIncludeTax),
           byMode |-> [m \in RoundingModes |->
                         calculateInvoiceTotals(calcIn.items,
                           calcIn.discountPercentage, calcIn.discountAmount,
                           calcIn.taxRate, calcIn.pricesIncludeTax, m)],
           lineDiscounts |-> IF subtotal > 0
                             THEN lineDiscounts(grosses, final, subtotal)
                             ELSE <<>>,
           perLineDiscounts |-> perLineDiscounts(grosses, final, subtotal)]
  /\ UNCHANGED <<dbVars, calcIn, pending>>

NextCalc == Calculate

SpecCalc == InitCalc /\ [][NextCalc]_vars

calcSubtotal == SumSeq(lineGrosses(calcIn.items))

\* ---------------------- direct calls with one line of a whole-cent amount
AmountTaxRates == {0, 8, 20, 50}

AmountInputs ==
  {[items |-> <<[quantity |-> 1, unitPrice |-> a, taxes |-> <<>>]>>,
    discountPercentage |-> d, discountAmount |-> 0,
    taxRate |-> t, pricesIncludeTax |-> b, roundingMode |-> m] :
     a \in 0..MaxAmount, d \in {0, 50}, t \in AmountTaxRates,
     b \in BOOLEAN, m \in RoundingModes}

InitAmount ==
  /\ SeededDb
  /\ calcIn \in AmountInputs
  /\ calcOut = NotCalled
  /\ pending = <<>>

SpecAmount == InitAmount /\ [][NextCalc]_vars

AccountingIdentity ==
  (calcOut.done /\ ~calcIn.pricesIncludeTax) =>
     /\ calcOut.totals.total = calcOut.totals.subtotal
          - calcOut.totals.discountAmount + calcOut.totals.taxAmount
     /\ calcOut.perLine.total = calcOut.perLine.subtotal
          - calcOut.perLine.discountAmount + calcOut.perLine.taxAmount

\* min(max(x, 0), subtotal) of a fraction x of a cent
Clamped(x, subtotal) ==
  IF x[1] < 0 THEN Int2Rat(0)
  ELSE IF x[1] > subtotal * x[2] THEN Int2Rat(subtotal)
  ELSE x

\* C11: for a non-negative subtotal and any discountAmount / discountPercentage
\* (negative values and percentages above 100 included) calculateInvoiceTotals
\* and calculatePerLineTotals return 0 <= discountAmount <= subtotal, and a
\* negative flat discount yields 0.
DiscountClamp ==
  (calcOut.done /\ calcSubtotal >= 0) =>
     /\ \A t \in {calcOut.totals, calcOut.perLine} :
          /\ 0 <= t.discountAmount
          /\ t.discountAmount <= t.subtotal
     /\ (calcIn.discountPercentage <= 0 /\ calcIn.discountAmount < 0) =>
          /\ calcOut.totals.discountAmount = 0
          /\ calcOut.perLine.discountAmount = 0

\* a 150 % discount on a positive subtotal was cut down to the subtotal
DiscountClampWitness ==
  /\ calcOut.done
  /\ calcSubtotal > 0
  /\ calcIn.discountPercentage = 150
  /\ calcOut.totals.discountAmount = calcOut.totals.subtotal
  /\ calcOut.perLine.discountAmount = calcOut.perLine.subtotal

Abs(x) == IF x < 0 THEN 0 - x ELSE x

\* C12 (as claimed): for the same n >= 1 lines, discount, taxRate and
\* pricesIncludeTax the totals of rounding mode "line" and of rounding mode
\* "total" differ by at most n cents.
RoundingModeDivergenceBounded ==
  (calcOut.done /\ Len(calcIn.items) >= 1) =>
     Abs(calcOut.byMode["line"].total - calcOut.byMode["total"].total)
       <= Len(calcIn.items)

\* the tax percents the lines of calcIn declare
DeclaredPercents ==
  UNION {{calcIn.items[i].taxes[j] : j \in 1..Len(calcIn.items[i].taxes)} :
         i \in 1..Len(calcIn.items)}

NetAmountsOf(T, taxRate) ==
  {A \in 0..T : A + r2(Rat(A * taxRate, 100)) = T}

\* C18: if T = A + round2(A * r) for a whole-cent amount A >= 0 and a rate
\* r > 0, calculateInvoiceTotals on the single amount T with the same rate and
\* pricesIncludeTax = true returns taxAmount = round2(A * r) and total = T, in
\* both rounding modes.
AddOnAndExtractionAreInverse ==
  (/\ calcOut.done
   /\ Len(calcIn.items) = 1
   /\ calcIn.pricesIncludeTax
   /\ calcIn.taxRate > 0
   /\ calcIn.discountPercentage = 0
   /\ calcIn.discountAmount = 0) =>
     \A A \in NetAmountsOf(calcSubtotal, calcIn.taxRate) :
        \A m \in RoundingModes :
           /\ calcOut.byMode[m].taxAmount = r2(Rat(A * calcIn.taxRate, 100))
           /\ calcOut.byMode[m].total = calcSubtotal

\* 0.04 holds 0.03 net and round2(0.03 * 20 %) = 0.01 of tax
AddOnAndExtractionWitness ==
  /\ calcOut.done
  /\ Len(calcIn.items) = 1
  /\ calcIn.pricesIncludeTax
  /\ calcIn.taxRate = 20
  /\ calcIn.discountPercentage = 0
  /\ calcSubtotal = 4
  /\ 3 \in NetAmountsOf(calcSubtotal, calcIn.taxRate)
  /\ calcOut.byMode["line"].taxAmount = 1
  /\ calcOut.byMode["total"].taxAmount = 1

\* ------------------------------------------------------------ rate modifiers
Has(data, f) == f \in DOMAIN data

Multipliers == {0, 150}

\* the bodies POST and PUT /rate-modifiers pass on unchecked
ModifierData ==
  [multiplier : Multipliers] \cup [multiplier : Multipliers, isDefault : BOOLEAN]
ModifierPatch ==
  ModifierData \cup [isDefault : BOOLEAN] \cup {[x \in {} |-> 0]}

\* UPDATE rate_modifiers SET is_default = 0
UnsetAllDefaults(table) ==
  [m \in DOMAIN table |-> [table[m] EXCEPT !.is_default = FALSE]]

\* items of all invoices that carry rate_modifier_id = id
ItemsUsing(id) ==
  UNION {{<<inv, i>> : i \in {j \in 1..Len(invoices[inv].items) :
                                  invoices[inv].items[j].rate_modifier_id = id}} :
         inv \in DOMAIN invoices}

createRateModifier(data) ==
  /\ LET id == nextModifierId
         isDefault == IF Has(data, "isDefault") THEN data.isDefault ELSE FALSE
         cleared == IF isDefault THEN UnsetAllDefaults(rate_modifiers)
                    ELSE rate_modifiers
     IN /\ rate_modifiers' =
             [m \in DOMAIN cleared \cup {id} |->
                IF m = id
                THEN [multiplier |-> data.multiplier, is_default |-> isDefault]
                ELSE cleared[m]]
        /\ nextModifierId' = id + 1
        /\ response' = [op |-> "createRateModifier", id |-> id, err |-> "none",
                        isDefault |-> isDefault]
  /\ UNCHANGED <<settings, invoices, calcIn, calcOut, pending>>

updateRateModifierKeepsOthers(id, data) ==
  /\ IF id \notin DOMAIN rate_modifiers
     THEN /\ response' = [op |-> "updateRateModifier", id |-> id, err |-> "null",
                          isDefault |-> FALSE]
          /\ UNCHANGED rate_modifiers
     ELSE LET existing == rate_modifiers[id]
              multiplier == IF Has(data, "multiplier") THEN data.multiplier
                            ELSE existing.multiplier
              isDefault == IF Has(data, "isDefault") THEN data.isDefault
                           ELSE existing.is_default
          IN /\ rate_modifiers' =
                  [rate_modifiers EXCEPT ![id] =
                     [multiplier |-> multiplier, is_default |-> isDefault]]
             /\ response' = [op |-> "updateRateModifier", id |-> id,
                             err |-> "none", isDefault |-> isDefault]
  /\ UNCHANGED <<nextModifierId, settings, invoices, calcIn, calcOut, pending>>

updateRateModifier(id, data) ==
  /\ IF id \notin DOMAIN rate_modifiers
     THEN /\ response' = [op |-> "updateRateModifier", id |-> id, err |-> "null",
                          isDefault |-> FALSE]
          /\ UNCHANGED rate_modifiers
     ELSE LET existing == rate_modifiers[id]
              multiplier == IF Has(data, "multiplier") THEN data.multiplier
                            ELSE existing.multiplier
              isDefault == IF Has(data, "isDefault") THEN data.isDefault
                           ELSE existing.is_default
              cleared == IF isDefault /\ ~existing.is_default
                         THEN UnsetAllDefaults(rate_modifiers)
                         ELSE rate_modifiers
          IN /\ rate_modifiers' =
                  [cleared EXCEPT ![id] =
                     [multiplier |-> multiplier, is_default |-> isDefault]]
             /\ response' = [op |-> "updateRateModifier", id |-> id,
                             err |-> "none", isDefault |-> isDefault]
  /\ UNCHANGED <<nextModifierId, settings, invoices, calcIn, calcOut, pending>>

deleteRateModifierUnchecked(id) ==
  /\ IF id \notin DOMAIN rate_modifiers
     THEN /\ response' = [op |-> "deleteRateModifier", id |-> id,
                          err |-> "Rate modifier not found", isDefault |-> FALSE]
          /\ UNCHANGED rate_modifiers
     ELSE IF rate_modifiers[id].is_default
     THEN /\ response' = [op |-> "deleteRateModifier", id |-> id,
                          err |-> "Cannot delete the default rate modifier",
                          isDefault |-> TRUE]
          /\ UNCHANGED rate_modifiers
     ELSE /\ rate_modifiers' =
               [m \in DOMAIN rate_modifiers \ {id} |-> rate_modifiers[m]]
          /\ response' = [op |-> "deleteRateModifier", id |-> id, err |-> "none",
                          isDefault |-> FALSE]
  /\ UNCHANGED <<nextModifierId, settings, invoices, calcIn, calcOut, pending>>

deleteRateModifier(id) ==
  /\ IF id \notin DOMAIN rate_modifiers
     THEN /\ response' = [op |-> "deleteRateModifier", id |-> id,
                          err |-> "Rate modifier not found", isDefault |-> FALSE]
          /\ UNCHANGED rate_modifiers
     ELSE IF rate_modifiers[id].is_default
     THEN /\ response' = [op |-> "deleteRateModifier", id |-> id,
                          err |-> "Cannot delete the default rate modifier",
                          isDefault |-> TRUE]
          /\ UNCHANGED rate_modifiers
     ELSE IF Cardinality(ItemsUsing(id)) > 0
     THEN /\ response' = [op |-> "deleteRateModifier", id |-> id,
                          err |-> "Cannot delete rate modifier: in use",
                          isDefault |-> FALSE]
          /\ UNCHANGED rate_modifiers
     ELSE /\ rate_modifiers' =
               [m \in DOMAIN rate_modifiers \ {id} |-> rate_modifiers[m]]
          /\ response' = [op |-> "deleteRateModifier", id |-> id, err |-> "none",
                          isDefault |-> FALSE]
  /\ UNCHANGED <<nextModifierId, settings, invoices, calcIn, calcOut, pending>>

\* ----------------------------------------------------------------- invoices
Today == 1

\* an optional numeric field of a request body
Opt(data, f) == IF Has(data, f) THEN data[f] ELSE undefined
\* a ?? b on optional numbers
Coalesce(a, b) == IF a = undefined THEN b ELSE a

\* Number(settings.defaultTaxRate || 0) || 0
defaultTaxRate == OrZero(settings.defaultTaxRate)

\* i.taxes is an array with at least one entry, for some item i
hasPerLineTaxesNever(items) == FALSE
hasPerLineTaxes(items) == \E i \in 1..Len(items) : Len(items[i].taxes) > 0

\* modifierMultiplier of createInvoice / updateInvoice:
\* 1.0 unless the id is set and names a row, then Number(multiplier) || 1.0
modifierMultiplier(rateModifierId) ==
  IF rateModifierId # NoId /\ rateModifierId \in DOMAIN rate_modifiers
  THEN IF rate_modifiers[rateModifierId].multiplier = 0 THEN DefaultMultiplier
       ELSE rate_modifiers[rateModifierId].multiplier
  ELSE DefaultMultiplier

\* mileageRate of createInvoice / updateInvoice: 0.70 unless the setting
\* exists, then Number(value) || 0.70
mileageRate ==
  IF settings.mileageRate = undefined \/ settings.mileageRate = 0
  THEN DefaultMileageRate
  ELSE settings.mileageRate

\* lineTotal of one submitted item
lineTotalUnknownIsZero(item) ==
  IF item.hours # undefined /\ item.hours > 0
  THEN IF item.rateModifierId # NoId /\ item.rateModifierId \notin DOMAIN rate_modifiers
       THEN 0
       ELSE calculateTimeBasedLineTotal(OrZero(item.rate), OrZero(item.hours),
              modifierMultiplier(item.rateModifierId), item.distance, mileageRate)
  ELSE OrZero(item.quantity) * OrZero(item.unitPrice)
lineTotalHoursPresent(item) ==
  IF item.hours # undefined
  THEN calculateTimeBasedLineTotal(OrZero(item.rate), OrZero(item.hours),
         modifierMultiplier(item.rateModifierId), item.distance, mileageRate)
  ELSE OrZero(item.quantity) * OrZero(item.unitPrice)
lineTotal(item) ==
  IF item.hours # undefined /\ item.hours > 0
  THEN calculateTimeBasedLineTotal(OrZero(item.rate), OrZero(item.hours),
         modifierMultiplier(item.rateModifierId), item.distance, mileageRate)
  ELSE OrZero(item.quantity) * OrZero(item.unitPrice)

\* the invoice_items rows (with their invoice_item_taxes rows) written for the
\* submitted items; perItem is calculatePerLineTotals' perItem, or <<>>
itemRows(items, perItem) ==
  [i \in 1..Len(items) |->
     [quantity |-> items[i].quantity,
      unit_price |-> items[i].unitPrice,
      line_total |-> lineTotal(items[i]),
      hours |-> items[i].hours,
      rate |-> items[i].rate,
      rate_modifier_id |-> items[i].rateModifierId,
      distance |-> items[i].distance,
      taxes |-> IF i <= Len(perItem)
                THEN [j \in 1..Len(perItem[i].taxes) |->
                        [percent |-> perItem[i].taxes[j].percent,
                         taxable_amount |-> perItem[i].taxable,
                         amount |-> perItem[i].taxes[j].amount]]
                ELSE <<>>]]

\* "Recalculate totals from actual line totals": the block at the end of
\* createInvoice and of updateInvoice
recalculatedTotals(rows, discountPercentage, discountAmount, taxRate, pricesIncludeTax) ==
  LET subtotal == SumSeq([i \in 1..Len(rows) |-> rows[i].line_total])
      final == finalDiscountAmount(subtotal, discountPercentage, discountAmount)
      afterDiscount == RSub(Int2Rat(subtotal), final)
      divisor == Rat(100 + taxRate, 100)
      \* total / divisor with divisor = 0 is Infinity, or NaN for 0 / 0, and
      \* Math.round leaves both as they are
      divides == pricesIncludeTax /\ divisor[1] # 0
      taxAmount == IF divides
                   THEN RSub(afterDiscount, RDiv(afterDiscount, divisor))
                   ELSE RMul(afterDiscount, Rat(taxRate, 100))
      total == IF pricesIncludeTax THEN afterDiscount
               ELSE RAdd(afterDiscount, taxAmount)
  IN [subtotal |-> MathRound(Int2Rat(subtotal)),
      discountAmount |-> MathRound(final),
      taxAmount |-> IF pricesIncludeTax /\ divisor[1] = 0
                    THEN IF afterDiscount[1] = 0 THEN NaN ELSE NegInfinity
                    ELSE MathRound(taxAmount),
      total |-> MathRound(total)]

Totals4(t) == [subtotal |-> t.subtotal, discountAmount |-> t.discountAmount,
               taxAmount |-> t.taxAmount, total |-> t.total]

\* the table customers: no handler of this model changes it (deleteCustomer
\* refuses to delete a customer that has invoices)
customers == {1}
\* an id that names no customer
GhostCustomer == 2

\* An invoice number is a base and a suffix of characters; the characters
\* 0..9 are the digits, a larger number is a letter.
InvoiceNumber(base, suffix) == [base |-> base, suffix |-> suffix]

\* `${prefix}-${year}-` with the default prefix and the current year
LegacyBase == "INV-YYYY-"
DraftBase == "DRAFT-"
\* let pad = 3
Padding == 3

\* `DRAFT-${cryptoRandom(6)}`: rand is what the random generator returned
generateDraftInvoiceNumber(rand) == InvoiceNumber(DraftBase, <<rand>>)

\* Numbers that getNextInvoiceNumber computes with are written as their decimal
\* digits without leading zeros, so that String(n) is the sequence itself.
\* They are doubles: every integer up to 2^53 is one, 2^53 + 1 is not.
TwoTo53 == <<9, 0, 0, 7, 1, 9, 9, 2, 5, 4, 7, 4, 0, 9, 9, 2>>

\* parseInt(digits, 10), for digits that denote at most 2^53
RECURSIVE ParseInt(_)
ParseInt(ds) ==
  IF Len(ds) > 1 /\ ds[1] = 0 THEN ParseInt(Tail(ds)) ELSE ds

\* a >= b
Geq(a, b) ==
  \/ Len(a) > Len(b)
  \/ /\ Len(a) = Len(b)
     /\ \/ a = b
        \/ \E k \in 1..Len(a) :
              a[k] > b[k] /\ \A j \in 1..(k - 1) : a[j] = b[j]

\* the successor of an integer
RECURSIVE Succ(_)
Succ(ds) ==
  IF ds = <<>> THEN <<1>>
  ELSE IF ds[Len(ds)] < 9
  THEN [ds EXCEPT ![Len(ds)] = ds[Len(ds)] + 1]
  ELSE Append(Succ(SubSeq(ds, 1, Len(ds) - 1)), 0)

\* n + 1 in doubles, for n <= 2^53: 2^53 + 1 lies halfway between 2^53 and
\* 2^53 + 2 and is rounded to the even mantissa, 2^53
AddOne(n) == IF n = TwoTo53 THEN n ELSE Succ(n)

\* Math.max over the values seen, starting from 0
MaxSeen(values) ==
  IF values = {} THEN <<0>>
  ELSE CHOOSE x \in values : \A y \in values : Geq(x, y)

\* String(n).padStart(width, "0")
PadStart(ds, width) ==
  IF Len(ds) >= width THEN ds ELSE [i \in 1..(width - Len(ds)) |-> 0] \o ds

\* the leading digits of a suffix: the group (\d+) of the pattern's expression
RECURSIVE LeadingDigits(_)
LeadingDigits(cs) ==
  IF cs = <<>> \/ cs[1] \notin 0..9 THEN <<>>
  ELSE <<cs[1]>> \o LeadingDigits(Tail(cs))

\* inv.match(/^base(\d+)$/)
MatchesLegacy(number) ==
  /\ number.base = LegacyBase
  /\ number.suffix # <<>>
  /\ \A k \in 1..Len(number.suffix) : number.suffix[k] \in 0..9

\* inv.match(/^prefixForSeq(\d+).*?$/)
MatchesPattern(number, pattern) ==
  number.base = pattern.prefix /\ LeadingDigits(number.suffix) # <<>>

\* getNextInvoiceNumber() on the table tbl. With a pattern: the pattern with
\* 1 + the largest sequence in use after its prefix, padded to 3. Legacy
\* format: the base and 1 + the largest numeric suffix in use, padded.
getNextInvoiceNumber(tbl) ==
  LET pattern == settings.invoiceNumberPattern
      seqs == {ParseInt(LeadingDigits(tbl[i].invoice_number.suffix)) :
                 i \in {j \in DOMAIN tbl :
                          MatchesPattern(tbl[j].invoice_number, pattern)}}
      used == {ParseInt(tbl[i].invoice_number.suffix) :
                 i \in {j \in DOMAIN tbl : MatchesLegacy(tbl[j].invoice_number)}}
  IN IF pattern # NoPattern
     THEN InvoiceNumber(pattern.prefix,
                        PadStart(AddOne(MaxSeen(seqs)), 3) \o pattern.rest)
     ELSE InvoiceNumber(LegacyBase, PadStart(AddOne(MaxSeen(used)), Padding))

\* SELECT 1 FROM invoices WHERE invoice_number = ?
NumberInUseNever(number) == FALSE
NumberInUse(number) ==
  \E i \in DOMAIN invoices : invoices[i].invoice_number = number

\* SELECT 1 FROM invoices WHERE invoice_number = ? AND id <> ?
NumberUsedByOther(number, id) ==
  \E i \in DOMAIN invoices \ {id} : invoices[i].invoice_number = number

\* what a handler answers when it wrote nothing
Failed(op, id, err, data) ==
  /\ response' = [op |-> op, id |-> id, err |-> err, perLine |-> FALSE,
                  calculated |-> <<>>, data |-> data]
  /\ UNCHANGED invoices

\* SELECT 1 FROM invoices WHERE share_token = ? (share_token TEXT UNIQUE)
TokenInUse(token) ==
  \E i \in DOMAIN invoices : invoices[i].share_token = token

\* rand is what the random generator returns if it is asked for a draft
\* number, token is what generateShareToken() returns
createInvoice(data, rand, token) ==
  /\ LET id == Cardinality(DOMAIN invoices) + 1
         explicit == Has(data, "invoiceNumber")
         \* with a {SEQ} pattern the real number is allocated now
         invoiceNumber == IF explicit THEN data.invoiceNumber
                          ELSE IF settings.invoiceNumberPattern # NoPattern
                          THEN getNextInvoiceNumber(invoices)
                          ELSE generateDraftInvoiceNumber(rand)
         perLine == hasPerLineTaxes(data.items)
         pricesIncludeTax == IF Has(data, "pricesIncludeTax")
                             THEN data.pricesIncludeTax
                             ELSE settings.defaultPricesIncludeTax
         roundingMode == IF Has(data, "roundingMode") THEN data.roundingMode
                         ELSE settings.defaultRoundingMode
         taxRate == OrZero(Coalesce(Opt(data, "taxRate"), defaultTaxRate))
         perLineCalc == calculatePerLineTotals(data.items,
                          OrZero(Opt(data, "discountPercentage")),
                          OrZero(Opt(data, "discountAmount")), pricesIncludeTax)
         calculated == IF perLine THEN Totals4(perLineCalc)
                       ELSE calculateInvoiceTotals(data.items,
                              OrZero(Opt(data, "discountPercentage")),
                              OrZero(Opt(data, "discountAmount")), taxRate,
                              pricesIncludeTax, roundingMode)
         rows == itemRows(data.items, IF perLine THEN perLineCalc.perItem ELSE <<>>)
         totals == IF perLine THEN calculated
                   ELSE recalculatedTotals(rows, Opt(data, "discountPercentage"),
                          Opt(data, "discountAmount"), taxRate, pricesIncludeTax)
         row == [invoice_number |-> invoiceNumber,
                 share_token |-> token,
                 customer_id |-> Opt(data, "customerId"),
                 issue_date |-> IF Has(data, "issueDate") THEN data.issueDate
                                ELSE Today,
                 currency |-> IF Has(data, "currency") THEN data.currency
                              ELSE settings.currency,
                 status |-> IF Has(data, "status") THEN data.status ELSE "draft",
                 due_date |-> Opt(data, "dueDate"),
                 subtotal |-> totals.subtotal,
                 discount_amount |-> totals.discountAmount,
                 discount_percentage |-> OrZero(Opt(data, "discountPercentage")),
                 tax_rate |-> IF perLine THEN 0 ELSE OrZero(Opt(data, "taxRate")),
                 tax_amount |-> totals.taxAmount,
                 total |-> totals.total,
                 prices_include_tax |-> pricesIncludeTax,
                 rounding_mode |-> roundingMode,
                 items |-> rows,
                 taxes |-> IF perLine THEN perLineCalc.summary ELSE <<>>]
     IN IF explicit /\ NumberInUse(invoiceNumber)
        THEN Failed("createInvoice", NoId, "Invoice number already exists", data)
        \* invoice_number TEXT UNIQUE NOT NULL: the INSERT fails
        ELSE IF NumberInUse(invoiceNumber) \/ TokenInUse(token)
        THEN Failed("createInvoice", NoId, "UNIQUE constraint failed", data)
        \* the customer is looked up after the rows are written
        ELSE /\ invoices' = [i \in DOMAIN invoices \cup {id} |->
                               IF i = id THEN row ELSE invoices[i]]
             /\ response' = [op |-> "createInvoice", id |-> id,
                             err |-> IF Opt(data, "customerId") \in customers
                                     THEN "none" ELSE "Customer not found",
                             perLine |-> perLine, calculated |-> calculated,
                             data |-> data]
  /\ UNCHANGED <<rate_modifiers, nextModifierId, settings, calcIn, calcOut, pending>>

\* applyDerivedOverdue: the status getInvoiceById reports
derivedStatus(row) ==
  IF row.status = "paid" THEN "paid"
  ELSE IF row.due_date = undefined THEN row.status
  ELSE IF row.due_date < Today THEN "overdue"
  ELSE row.status

\* the keys of the request that an issued invoice refuses
forbiddenAmountsOnly == {"items", "discountAmount", "discountPercentage", "taxRate",
                         "pricesIncludeTax", "roundingMode"}
forbidden == {"items", "discountAmount", "discountPercentage", "taxRate",
              "pricesIncludeTax", "roundingMode", "currency", "customerId",
              "issueDate", "invoiceNumber", "subtotal", "total"}

\* getInvoiceById finds the invoice: its row exists and so does the row of
\* its customer
Found(id) == id \in DOMAIN invoices /\ invoices[id].customer_id \in customers

updateInvoice(id, data) ==
  /\ IF ~Found(id)
     THEN /\ response' = [op |-> "updateInvoice", id |-> id, err |-> "null",
                          perLine |-> FALSE, calculated |-> <<>>,
                          data |-> data]
          /\ UNCHANGED invoices
     ELSE LET existing == [invoices[id] EXCEPT !.status = derivedStatus(invoices[id])]
              isIssued == existing.status # "draft"
          IN IF isIssued /\ (DOMAIN data \cap forbidden) # {}
             THEN /\ response' = [op |-> "updateInvoice", id |-> id,
                                  err |-> "Issued invoices cannot be modified",
                                  perLine |-> FALSE, calculated |-> <<>>,
                                  data |-> data]
                  /\ UNCHANGED invoices
             ELSE IF /\ Has(data, "invoiceNumber")
                     /\ data.invoiceNumber # existing.invoice_number
                     /\ NumberUsedByOther(data.invoiceNumber, id)
             THEN Failed("updateInvoice", id, "Invoice number already exists", data)
             ELSE LET withItems == Has(data, "items")
                      perLine == withItems /\ hasPerLineTaxes(data.items)
                      discountPercentage == Coalesce(Opt(data, "discountPercentage"),
                                                     existing.discount_percentage)
                      discountAmount == Coalesce(Opt(data, "discountAmount"),
                                                 existing.discount_amount)
                      taxRate == Coalesce(Opt(data, "taxRate"), existing.tax_rate)
                      pricesIncludeTax == IF Has(data, "pricesIncludeTax")
                                          THEN data.pricesIncludeTax
                                          ELSE existing.prices_include_tax
                      roundingMode == IF Has(data, "roundingMode")
                                      THEN data.roundingMode
                                      ELSE existing.rounding_mode
                      perLineCalc == calculatePerLineTotals(data.items,
                                       discountPercentage, discountAmount,
                                       pricesIncludeTax)
                      calculated ==
                        IF ~withItems
                        THEN [subtotal |-> existing.subtotal,
                              discountAmount |-> existing.discount_amount,
                              taxAmount |-> existing.tax_amount,
                              total |-> existing.total]
                        ELSE IF perLine THEN Totals4(perLineCalc)
                        ELSE calculateInvoiceTotals(data.items, discountPercentage,
                               discountAmount, taxRate, pricesIncludeTax,
                               roundingMode)
                      rows == IF withItems
                              THEN itemRows(data.items,
                                     IF perLine THEN perLineCalc.perItem ELSE <<>>)
                              ELSE existing.items
                      totals == IF withItems /\ ~perLine
                                THEN recalculatedTotals(rows, discountPercentage,
                                       discountAmount, taxRate, pricesIncludeTax)
                                ELSE calculated
                      customerId == Coalesce(Opt(data, "customerId"),
                                             existing.customer_id)
                      \* invoice_number = COALESCE(nextInvoiceNumber, invoice_number)
                      nextInvoiceNumber == IF Has(data, "invoiceNumber")
                                           THEN data.invoiceNumber
                                           ELSE existing.invoice_number
                      \* a draft that becomes sent or paid and still has a
                      \* placeholder number gets the next final number; the
                      \* reload is getInvoiceById again
                      locks == /\ Has(data, "status")
                               /\ data.status \in {"sent", "paid"}
                               /\ existing.status = "draft"
                               /\ customerId \in customers
                               /\ nextInvoiceNumber.base = DraftBase
                      updated == [invoices EXCEPT ![id].invoice_number =
                                    nextInvoiceNumber]
                  IN /\ invoices' = [invoices EXCEPT ![id] =
                          [invoice_number |-> IF locks
                                              THEN getNextInvoiceNumber(updated)
                                              ELSE nextInvoiceNumber,
                           share_token |-> existing.share_token,
                           customer_id |-> customerId,
                           issue_date |-> IF Has(data, "issueDate")
                                          THEN data.issueDate
                                          ELSE existing.issue_date,
                           currency |-> IF Has(data, "currency") THEN data.currency
                                        ELSE existing.currency,
                           status |-> IF Has(data, "status") THEN data.status
                                      ELSE existing.status,
                           due_date |-> IF Has(data, "dueDate") THEN data.dueDate
                                        ELSE existing.due_date,
                           subtotal |-> totals.subtotal,
                           discount_amount |-> totals.discountAmount,
                           discount_percentage |-> discountPercentage,
                           tax_rate |-> taxRate,
                           tax_amount |-> totals.taxAmount,
                           total |-> totals.total,
                           prices_include_tax |-> pricesIncludeTax,
                           rounding_mode |-> roundingMode,
                           items |-> rows,
                           taxes |-> IF ~withItems THEN existing.taxes
                                     ELSE IF perLine THEN perLineCalc.summary
                                     ELSE <<>>]]
                     /\ response' = [op |-> "updateInvoice", id |-> id,
                                     err |-> "none", perLine |-> perLine,
                                     calculated |-> calculated, data |-> data]
  /\ UNCHANGED <<rate_modifiers, nextModifierId, settings, calcIn, calcOut, pending>>

\* publishInvoice: every stored customer has a name, and createInvoice and
\* updateInvoice always store a currency and an issue date, so "items" is the
\* one required field that can be missing
publishInvoice(id) ==
  /\ IF ~Found(id)
     THEN Failed("publishInvoice", id, "Invoice not found", <<>>)
     ELSE IF invoices[id].items = <<>>
     THEN Failed("publishInvoice", id, "Cannot publish invoice", <<>>)
     ELSE /\ invoices' =
               IF derivedStatus(invoices[id]) = "draft"
               THEN [invoices EXCEPT ![id].status = "sent",
                                     ![id].invoice_number =
                       IF invoices[id].invoice_number.base = DraftBase
                       THEN getNextInvoiceNumber(invoices)
                       ELSE invoices[id].invoice_number]
               ELSE invoices
          /\ response' = [op |-> "publishInvoice", id |-> id, err |-> "none",
                          perLine |-> FALSE, calculated |-> <<>>, data |-> <<>>]
  /\ UNCHANGED <<rate_modifiers, nextModifierId, settings, calcIn, calcOut, pending>>

\* duplicateInvoice: a new draft with a placeholder number; the totals are
\* computed from quantity and unit price with the default flags, and of the
\* items only quantity, unit price and line total are copied
duplicateInvoice(id, rand, token) ==
  /\ IF ~Found(id)
     THEN Failed("duplicateInvoice", id, "null", <<>>)
     ELSE LET original == [invoices[id] EXCEPT !.status = derivedStatus(invoices[id])]
              newId == Cardinality(DOMAIN invoices) + 1
              totals == calculateInvoiceTotals(
                          [i \in 1..Len(original.items) |->
                             [quantity |-> original.items[i].quantity,
                              unitPrice |-> original.items[i].unit_price]],
                          original.discount_percentage, original.discount_amount,
                          original.tax_rate, FALSE, "line")
              row == [invoice_number |-> generateDraftInvoiceNumber(rand),
                      share_token |-> token,
                      customer_id |-> original.customer_id,
                      issue_date |-> Today,
                      currency |-> original.currency,
                      status |-> "draft",
                      due_date |-> original.due_date,
                      subtotal |-> totals.subtotal,
                      discount_amount |-> totals.discountAmount,
                      discount_percentage |-> original.discount_percentage,
                      tax_rate |-> original.tax_rate,
                      tax_amount |-> totals.taxAmount,
                      total |-> totals.total,
                      prices_include_tax |-> original.prices_include_tax,
                      rounding_mode |-> original.rounding_mode,
                      items |-> [i \in 1..Len(original.items) |->
                                   [quantity |-> original.items[i].quantity,
                                    unit_price |-> original.items[i].unit_price,
                                    line_total |-> original.items[i].line_total,
                                    hours |-> undefined,
                                    rate |-> undefined,
                                    rate_modifier_id |-> NoId,
                                    distance |-> undefined,
                                    taxes |-> <<>>]],
                      taxes |-> <<>>]
          \* invoice_number TEXT UNIQUE NOT NULL: the INSERT fails
          IN IF NumberInUse(row.invoice_number) \/ TokenInUse(token)
             THEN Failed("duplicateInvoice", id, "UNIQUE constraint failed", <<>>)
             ELSE /\ invoices' = [i \in DOMAIN invoices \cup {newId} |->
                                    IF i = newId THEN row ELSE invoices[i]]
                  /\ response' = [op |-> "duplicateInvoice", id |-> newId,
                                  err |-> "none", perLine |-> FALSE,
                                  calculated |-> totals, data |-> <<>>]
  /\ UNCHANGED <<rate_modifiers, nextModifierId, settings, calcIn, calcOut, pending>>

\* unpublishInvoice: a new share token, and the status back to draft
unpublishInvoice(id, token) ==
  /\ IF ~Found(id)
     THEN Failed("unpublishInvoice", id, "Invoice not found", <<>>)
     \* share_token TEXT UNIQUE NOT NULL: the UPDATE fails
     ELSE IF \E i \in DOMAIN invoices \ {id} : invoices[i].share_token = token
     THEN Failed("unpublishInvoice", id, "UNIQUE constraint failed", <<>>)
     ELSE /\ invoices' = [invoices EXCEPT ![id].share_token = token,
                                          ![id].status = "draft"]
          /\ response' = [op |-> "unpublishInvoice", id |-> id, err |-> "none",
                          perLine |-> FALSE, calculated |-> <<>>, data |-> <<>>]
  /\ UNCHANGED <<rate_modifiers, nextModifierId, settings, calcIn, calcOut, pending>>

\* GET /invoices/next-number
nextNumber ==
  /\ response' = [op |-> "nextNumber", next |-> getNextInvoiceNumber(invoices)]
  /\ UNCHANGED <<rate_modifiers, nextModifierId, settings, invoices, calcIn, calcOut, pending>>

\* PUT /settings with the one key 'invoiceNumberPattern'
updatePattern(value) ==
  /\ settings' = [settings EXCEPT !.invoiceNumberPattern = value]
  /\ response' = [op |-> "updateSettings"]
  /\ UNCHANGED <<rate_modifiers, nextModifierId, invoices, calcIn, calcOut, pending>>

\* PUT /settings with the one key 'mileageRate'
updateSettings(value) ==
  /\ settings' = [settings EXCEPT !.mileageRate = value]
  /\ response' = [op |-> "updateSettings"]
  /\ UNCHANGED <<rate_modifiers, nextModifierId, invoices, calcIn, calcOut, pending>>

\* ------------------------------------------------------------ request bodies
Item(q, p, h, r, m, d, t) ==
  [quantity |-> q, unitPrice |-> p, hours |-> h, rate |-> r,
   rateModifierId |-> m, distance |-> d, taxes |-> t]

\* the modifier ids a client can know: those handed out so far, and GhostId
KnownModifierIds == 0..(nextModifierId - 1) \cup {GhostId}

\* a record that has the fields of a and those of b (b wins)
Merge(a, b) ==
  [f \in DOMAIN a \cup DOMAIN b |-> IF f \in DOMAIN b THEN b[f] ELSE a[f]]

NoFields == [f \in {} |-> 0]

MileageRates == {0, 50}

\* line items: a legacy line without and with a per-line tax, a time-based
\* line with a modifier id and mileage, and a time-based line without either
\* that carries a per-line tax
InvoiceItems ==
  {Item(1, 3, undefined, undefined, NoId, undefined, <<>>),
   Item(1, 3, undefined, undefined, NoId, undefined, <<20>>),
   Item(undefined, undefined, 1, 1, 1, 1, <<>>),
   Item(undefined, undefined, 1, 3, NoId, undefined, <<50>>)}

InvoiceConfigs ==
  {NoFields,
   [discountPercentage |-> 50, roundingMode |-> "line"],
   [discountAmount |-> 1, taxRate |-> 50],
   [discountPercentage |-> 50, discountAmount |-> 1, taxRate |-> 50,
    pricesIncludeTax |-> TRUE, roundingMode |-> "total"],
   [taxRate |-> -100, pricesIncludeTax |-> TRUE]}

ItemLists == [items : SeqsUpTo(InvoiceItems, MaxItems)]

\* every request of this path names the stored customer
ForCustomer == [customerId |-> 1]

CreateRequests ==
  {Merge(Merge(l, c), ForCustomer) : l \in ItemLists, c \in InvoiceConfigs}

\* the random draft suffixes (letters)
DraftRands == {31, 32}
\* the random share tokens
ShareTokens == {1, 2}
\* a share token that is not in use: 32 random characters do not collide
FreshToken ==
  CHOOSE t \in 1..(Cardinality(DOMAIN invoices) + 1) : ~TokenInUse(t)
\* a suffix that is not in use: where invoice numbers are not the subject the
\* generator's six random characters do not collide
FreshRand ==
  CHOOSE r \in 31..(31 + Cardinality(DOMAIN invoices)) :
    ~NumberInUse(generateDraftInvoiceNumber(r))
UpdateRequests == ItemLists

Idle == calcIn = <<>> /\ calcOut = NotCalled /\ pending = <<>>

\* ------------------------------ the invoice write path (valuation, totals)
\* one invoice is created and then rewritten: neither handler reads another
\* invoice's rows
InitInvoice == SeededDb /\ Idle

CreateInvoice ==
  /\ invoices = [i \in {} |-> 0]
  /\ \E data \in CreateRequests : createInvoice(data, FreshRand, FreshToken)

UpdateInvoice ==
  \E id \in DOMAIN invoices, data \in UpdateRequests : updateInvoice(id, data)

AddModifier ==
  /\ Cardinality(DOMAIN rate_modifiers) < MaxModifiers
  /\ \E data \in [multiplier : Multipliers] : createRateModifier(data)

ChangeMultiplier ==
  \E id \in DOMAIN rate_modifiers \ {standard}, data \in [multiplier : Multipliers] :
     updateRateModifier(id, data)

ChangeMileageRate == \E v \in MileageRates : updateSettings(v)

NextInvoice ==
  \/ CreateInvoice
  \/ UpdateInvoice
  \/ AddModifier
  \/ ChangeMultiplier
  \/ ChangeMileageRate

SpecInvoice == InitInvoice /\ [][NextInvoice]_vars

\* ------------------------ the rate-modifier controller next to the invoices
Init == SeededDb /\ Idle

\* a time-based line that names the modifier m
ReferencingItem(m) == Item(undefined, undefined, 1, 1, m, undefined, <<>>)
ReferencingRequests ==
  {[items |-> <<ReferencingItem(m)>>, customerId |-> 1] :
     m \in KnownModifierIds \cup {NoId}}

CreateRateModifier ==
  /\ nextModifierId <= MaxModifiers
  /\ \E data \in ModifierData : createRateModifier(data)

UpdateRateModifier ==
  \E id \in KnownModifierIds, data \in ModifierPatch : updateRateModifier(id, data)

DeleteRateModifier ==
  \E id \in KnownModifierIds : deleteRateModifier(id)

CreateReferencingInvoice ==
  /\ Cardinality(DOMAIN invoices) < MaxInvoices
  /\ \E data \in ReferencingRequests : createInvoice(data, FreshRand, FreshToken)

UpdateReferencingInvoice ==
  \E id \in DOMAIN invoices, data \in ReferencingRequests : updateInvoice(id, data)

Next ==
  \/ CreateRateModifier
  \/ UpdateRateModifier
  \/ DeleteRateModifier
  \/ CreateReferencingInvoice
  \/ UpdateReferencingInvoice

Spec == Init /\ [][Next]_vars

DefaultModifiers == {m \in DOMAIN rate_modifiers : rate_modifiers[m].is_default}

\* C5 (as claimed): in every state reached from the seeded one by
\* createRateModifier, updateRateModifier and deleteRateModifier calls,
\* exactly one rate modifier is flagged default.
ExactlyOneDefault == Cardinality(DefaultModifiers) = 1

\* C6: after createRateModifier with isDefault = true, or updateRateModifier
\* with isDefault = true on an existing modifier, that modifier is the only one
\* flagged default; in every reachable state at most one modifier is flagged.
NewDefaultUnsetsOthers ==
  /\ Cardinality(DefaultModifiers) <= 1
  /\ (/\ response.op \in {"createRateModifier", "updateRateModifier"}
      /\ response.err = "none"
      /\ response.isDefault)
     => DefaultModifiers = {response.id}

\* a modifier was made the default while another one held the flag
NewDefaultWitness ==
  /\ response.op = "updateRateModifier"
  /\ response.err = "none"
  /\ response.isDefault
  /\ response.id # standard
  /\ standard \in DOMAIN rate_modifiers
  /\ DefaultModifiers = {response.id}

\* C7: deleteRateModifier raises an error and leaves rate_modifiers unchanged
\* when the modifier does not exist, is flagged default or is referenced by an
\* invoice item; only otherwise it removes exactly that modifier, so a
\* referenced modifier is never deleted.
DeleteIsGuarded ==
  [][response'.op = "deleteRateModifier" =>
       LET id == response'.id
       IN IF \/ id \notin DOMAIN rate_modifiers
             \/ rate_modifiers[id].is_default
             \/ ItemsUsing(id) # {}
          THEN response'.err # "none" /\ rate_modifiers' = rate_modifiers
          ELSE /\ response'.err = "none"
               /\ rate_modifiers' =
                    [m \in DOMAIN rate_modifiers \ {id} |-> rate_modifiers[m]]]_vars

\* a delete was refused because an invoice item uses the modifier
DeleteRefusedWitness ==
  /\ response.op = "deleteRateModifier"
  /\ response.err = "Cannot delete rate modifier: in use"
  /\ response.id \in DOMAIN rate_modifiers
  /\ ~rate_modifiers[response.id].is_default
  /\ ItemsUsing(response.id) # {}

\* the handler that has just written invoice rows, if any
Written == response.op \in {"createInvoice", "updateInvoice"} /\ response.err = "none"

StoredTotals(row) ==
  [subtotal |-> row.subtotal, discountAmount |-> row.discount_amount,
   taxAmount |-> row.tax_amount, total |-> row.total]

\* the lines of the invoice are all valued as quantity * unitPrice, so that
\* the persisted line totals are the grosses calculateInvoiceTotals sees
LegacyOnly(row) ==
  \A i \in 1..Len(row.items) :
     row.items[i].hours = undefined \/ row.items[i].hours <= 0

\* C3 (as claimed): in invoice tax mode the totals createInvoice re-derives
\* from the persisted line totals and stores equal, field for field, the
\* totals calculateInvoiceTotals returned for the same lines and config.
RederivationMatchesCalculation ==
  (/\ response.op = "createInvoice"
   /\ ~response.perLine
   /\ LegacyOnly(invoices[response.id])) =>
     StoredTotals(invoices[response.id]) = response.calculated

LineTotalsSum(row) ==
  SumSeq([i \in 1..Len(row.items) |-> row.items[i].line_total])

\* C4 (as claimed): the persisted subtotal of every invoice equals round2 of
\* the sum of the persisted line totals of its items.
SubtotalIsSumOfLineTotals ==
  \A id \in DOMAIN invoices :
     invoices[id].subtotal = r2(Int2Rat(LineTotalsSum(invoices[id])))

\* round2(rate * hours * multiplier + distance * mileageRate)
TimeBasedFormula(row, multiplier, mileage) ==
  r2(RAdd(Rat(OrZero(row.rate) * row.hours * multiplier, 100),
          Int2Rat(OrZero(row.distance) * mileage)))

\* C8 (as claimed): a line with hours > 0 whose modifier is stored, with any
\* multiplier >= 0 and any configured mileage rate >= 0, is persisted with
\* lineTotal = round2(rate * hours * multiplier + distance * mileageRate).
TimeBasedValuation ==
  Written =>
    \A i \in 1..Len(invoices[response.id].items) :
       LET row == invoices[response.id].items[i]
       IN (/\ row.hours # undefined
           /\ row.hours > 0
           /\ row.rate_modifier_id \in DOMAIN rate_modifiers
           /\ settings.mileageRate # undefined)
          => row.line_total =
               TimeBasedFormula(row, rate_modifiers[row.rate_modifier_id].multiplier,
                                settings.mileageRate)

TaxNonNegative ==
  /\ \A id \in DOMAIN invoices :
       invoices[id].tax_rate >= 0 => invoices[id].tax_amount >= 0
  /\ Written => response.calculated.taxAmount >= 0

\* tax was extracted from a tax-inclusive, discounted amount
TaxNonNegativeWitness ==
  /\ Written
  /\ invoices[response.id].prices_include_tax
  /\ invoices[response.id].discount_amount > 0
  /\ invoices[response.id].tax_amount > 0
  /\ response.calculated.taxAmount > 0

Finite(x) == x \notin {NaN, NegInfinity}

\* C15 (as claimed): no calculation path divides by zero: the totals
\* calculateInvoiceTotals / calculatePerLineTotals return to createInvoice and
\* updateInvoice and the totals these handlers store are all finite.
DivisionGuarded ==
  /\ \A id \in DOMAIN invoices :
       /\ Finite(invoices[id].subtotal)
       /\ Finite(invoices[id].discount_amount)
       /\ Finite(invoices[id].tax_amount)
       /\ Finite(invoices[id].total)
  /\ Written =>
       /\ Finite(response.calculated.subtotal)
       /\ Finite(response.calculated.discountAmount)
       /\ Finite(response.calculated.taxAmount)
       /\ Finite(response.calculated.total)

\* the discount the claim resolves from a subtotal, a percentage and a flat
\* amount, in cents
ResolvedDiscount(subtotal, pct, flat) ==
  r2(Clamped(IF pct > 0 THEN Rat(subtotal * pct, 100) ELSE Int2Rat(flat),
             subtotal))

\* C16: whenever discountPercentage > 0 the discount is subtotal *
\* discountPercentage / 100 (clamped) whatever flat discountAmount was
\* supplied, and the flat amount is used only when the percentage is 0 or
\* absent: in the totals calculateInvoiceTotals / calculatePerLineTotals
\* return to createInvoice and updateInvoice and in the totals these store.
PercentageDiscountWins ==
  [][(response'.op \in {"createInvoice", "updateInvoice"}
      /\ response'.err = "none") =>
       LET data == response'.data
           id == response'.id
           created == response'.op = "createInvoice"
           pct == IF created THEN OrZero(Opt(data, "discountPercentage"))
                  ELSE Coalesce(Opt(data, "discountPercentage"),
                                invoices[id].discount_percentage)
           flat == IF created THEN OrZero(Opt(data, "discountAmount"))
                   ELSE Coalesce(Opt(data, "discountAmount"),
                                 invoices[id].discount_amount)
       IN /\ invoices'[id].discount_amount =
               ResolvedDiscount(invoices'[id].subtotal, pct, flat)
          /\ response'.calculated.discountAmount =
               ResolvedDiscount(response'.calculated.subtotal, pct, flat)]_vars

\* 50 % of 0.03 was stored although a flat discount of 0.01 was supplied
PercentageDiscountWitness ==
  /\ response.op = "createInvoice"
  /\ response.err = "none"
  /\ Opt(response.data, "discountPercentage") = 50
  /\ Opt(response.data, "discountAmount") = 1
  /\ ~response.perLine
  /\ invoices[response.id].subtotal = 3
  /\ invoices[response.id].discount_amount = 2
  /\ response.calculated.discountAmount = 2

\* the tax of the uniform invoice rate on the stored lines of an invoice
UniformTax(row) ==
  LET sub == LineTotalsSum(row)
      final == IF row.discount_percentage > 0
               THEN Clamped(Rat(sub * row.discount_percentage, 100), sub)
               ELSE Int2Rat(row.discount_amount)
      after == RSub(Int2Rat(sub), final)
      rate == Rat(row.tax_rate, 100)
  IN IF row.prices_include_tax
     THEN r2(RSub(after, RDiv(after, RAdd(Int2Rat(1), rate))))
     ELSE r2(RMul(after, rate))

\* the amounts of all invoice_item_taxes rows of an invoice
ItemTaxAmounts(row) ==
  SumSeq([i \in 1..Len(row.items) |->
            SumSeq([j \in 1..Len(row.items[i].taxes) |->
                      row.items[i].taxes[j].amount])])

MixedItems ==
  {Item(2, 3, 0, 5, 1, 1, <<>>),
   Item(2, 3, undefined, 5, 1, 1, <<>>),
   Item(2, 3, -1, 5, NoId, undefined, <<>>),
   Item(2, 3, 1, 5, 1, 1, <<>>)}

MixedRequests == [items : SeqsUpTo(MixedItems, MaxLines), customerId : customers]

CreateMixedInvoice ==
  /\ invoices = [i \in {} |-> 0]
  /\ \E data \in MixedRequests : createInvoice(data, FreshRand, FreshToken)

UpdateMixedInvoice ==
  \E id \in DOMAIN invoices, data \in MixedRequests : updateInvoice(id, data)

NextValuation ==
  \/ CreateMixedInvoice
  \/ UpdateMixedInvoice
  \/ AddModifier
  \/ ChangeMileageRate

SpecValuation == Init /\ [][NextValuation]_vars

TimeBased(row) == row.hours # undefined /\ row.hours > 0

\* C20: a line is valued with the time-based formula if and only if hours is
\* present and > 0; a line with hours absent or 0 is valued as quantity *
\* unitPrice even when rate, rateModifierId or distance are set, and lines of
\* both kinds in one invoice are each valued by their own formula.
ValuationModeSelection ==
  Written =>
    \A i \in 1..Len(invoices[response.id].items) :
       LET row == invoices[response.id].items[i]
       IN row.line_total =
            IF TimeBased(row)
            THEN TimeBasedFormula(row, modifierMultiplier(row.rate_modifier_id),
                                  mileageRate)
            ELSE OrZero(row.quantity) * OrZero(row.unit_price)

\* an invoice with a line of hours 0 valued 2 x 0.03 and a line of hours 1
\* valued 0.05 * 1 * 1.5 + 1 * 0.50
ValuationModeWitness ==
  /\ Written
  /\ settings.mileageRate = 50
  /\ 1 \in DOMAIN rate_modifiers
  /\ rate_modifiers[1].multiplier = 150
  /\ Len(invoices[response.id].items) = 2
  /\ invoices[response.id].items[1].hours = 0
  /\ invoices[response.id].items[1].rate = 5
  /\ invoices[response.id].items[1].distance = 1
  /\ invoices[response.id].items[1].line_total = 6
  /\ invoices[response.id].items[2].hours = 1
  /\ invoices[response.id].items[2].quantity = 2
  /\ invoices[response.id].items[2].line_total = 58
  /\ invoices[response.id].subtotal = 64

\* ------------------------------------------- issued invoices (immutability)
\* one invoice is created as a draft or already issued, for the stored
\* customer or for an id that names no customer, and is then updated and
\* published
LegacyLine == Item(1, 3, undefined, undefined, NoId, undefined, <<>>)
OtherLine == Item(1, 1, undefined, undefined, NoId, undefined, <<>>)

\* an explicit number outside the legacy format
CustomNumber == InvoiceNumber("X-", <<1>>)

IssuableCreates ==
  {Merge([items |-> <<LegacyLine>>], Merge(c, st)) :
     c \in {ForCustomer, [customerId |-> GhostCustomer]},
     st \in {NoFields, [status |-> "sent"], [status |-> "paid"], [dueDate |-> 0]}}

\* one request for each key an issued invoice refuses
StructuralUpdates ==
  {[items |-> <<OtherLine>>], [discountAmount |-> 0], [discountPercentage |-> 50],
   [taxRate |-> 0], [pricesIncludeTax |-> FALSE], [roundingMode |-> "line"],
   [currency |-> "EUR"], [customerId |-> 1], [issueDate |-> Today],
   [invoiceNumber |-> CustomNumber], [subtotal |-> 3], [total |-> 3]}

StatusUpdates == {[status |-> "sent"], [status |-> "draft"], [dueDate |-> 2]}

CreateIssuable ==
  /\ invoices = [i \in {} |-> 0]
  /\ \E data \in IssuableCreates, rand \in DraftRands : createInvoice(data, rand, FreshToken)

UpdateIssuable ==
  \E id \in DOMAIN invoices, data \in StructuralUpdates \cup StatusUpdates :
     updateInvoice(id, data)

PublishIssuable == \E id \in DOMAIN invoices : publishInvoice(id)

NextIssued ==
  \/ CreateIssuable
  \/ UpdateIssuable
  \/ PublishIssuable

SpecIssued == Init /\ [][NextIssued]_vars

IssuedError == "Issued invoices cannot be modified"

StructuralKeys == {"items", "discountAmount", "discountPercentage", "taxRate",
                   "pricesIncludeTax", "roundingMode", "currency", "customerId",
                   "issueDate", "invoiceNumber", "subtotal", "total"}

\* the step is updateInvoice(id, data) with one of these keys in data, on an
\* invoice whose stored status is not draft
StructuralUpdateOfIssued ==
  /\ response'.op = "updateInvoice"
  /\ response'.id \in DOMAIN invoices
  /\ invoices[response'.id].status # "draft"
  /\ DOMAIN response'.data \cap StructuralKeys # {}

\* C13 as claimed: updateInvoice on an invoice whose status is not draft, with
\* a request that contains items, discountAmount, discountPercentage, taxRate,
\* pricesIncludeTax, roundingMode, currency, customerId, issueDate,
\* invoiceNumber, subtotal or total, raises an error and leaves the invoice
\* unchanged.
IssuedInvoiceUpdateRaises ==
  [][StructuralUpdateOfIssued =>
       response'.err = IssuedError /\ invoices' = invoices]_vars

\* C13: updateInvoice on an invoice whose status is not draft, with a request
\* that contains one of those keys, leaves the invoice unchanged: it raises
\* the error when getInvoiceById finds the invoice (the row of its customer
\* exists), and returns null like for an unknown id when it does not.
IssuedInvoiceImmutable ==
  [][StructuralUpdateOfIssued =>
       /\ invoices' = invoices
       /\ response'.err =
            IF Found(response'.id) THEN IssuedError ELSE "null"]_vars

\* an issued invoice of the stored customer has just refused a request that
\* carries new items
IssuedInvoiceImmutableWitness ==
  /\ response.op = "updateInvoice"
  /\ response.err = IssuedError
  /\ "items" \in DOMAIN response.data
  /\ Found(response.id)
  /\ invoices[response.id].status = "sent"
  /\ invoices[response.id].items[1].unit_price = 3

\* ------------------------------------------------------- invoice numbers
\* up to MaxDocs invoices of the stored customer are created with a placeholder
\* or an explicit number, renumbered, issued and duplicated
FirstLegacyNumber == InvoiceNumber(LegacyBase, <<0, 0, 1>>)

ExplicitNumbers == {FirstLegacyNumber, CustomNumber}

NumberedCreates ==
  {[items |-> <<LegacyLine>>, customerId |-> 1]} \cup
  {[items |-> <<LegacyLine>>, customerId |-> 1, invoiceNumber |-> n] :
     n \in ExplicitNumbers}

\* a new number, the move to sent, and a due date that has passed
NumberUpdates ==
  {[invoiceNumber |-> n] : n \in ExplicitNumbers} \cup
  {[status |-> "sent"], [dueDate |-> 0]}

CreateNumbered ==
  /\ Cardinality(DOMAIN invoices) < MaxDocs
  /\ \E data \in NumberedCreates, rand \in DraftRands : createInvoice(data, rand, FreshToken)

UpdateNumbered ==
  \E id \in DOMAIN invoices, data \in NumberUpdates : updateInvoice(id, data)

PublishNumbered == \E id \in DOMAIN invoices : publishInvoice(id)

DuplicateNumbered ==
  /\ Cardinality(DOMAIN invoices) < MaxDocs
  /\ \E id \in DOMAIN invoices, rand \in DraftRands : duplicateInvoice(id, rand, FreshToken)

NextNumbers ==
  \/ CreateNumbered
  \/ UpdateNumbered
  \/ PublishNumbered
  \/ DuplicateNumbered

SpecNumbers == Init /\ [][NextNumbers]_vars

NumberError == "Invoice number already exists"

\* no two invoices of the table tbl share an invoice number
Unique(tbl) ==
  \A i, j \in DOMAIN tbl : tbl[i].invoice_number = tbl[j].invoice_number => i = j

\* the step is createInvoice with an explicit number that an invoice has
CreateWithUsedNumber ==
  /\ response'.op = "createInvoice"
  /\ "invoiceNumber" \in DOMAIN response'.data
  /\ \E i \in DOMAIN invoices :
        invoices[i].invoice_number = response'.data.invoiceNumber

\* the step is updateInvoice with a number that a different invoice has
UpdateWithUsedNumber ==
  /\ response'.op = "updateInvoice"
  /\ response'.id \in DOMAIN invoices
  /\ "invoiceNumber" \in DOMAIN response'.data
  /\ \E i \in DOMAIN invoices \ {response'.id} :
        invoices[i].invoice_number = response'.data.invoiceNumber

ConfiguredMileageRate ==
  IF settings.mileageRate = undefined THEN DefaultMileageRate
  ELSE settings.mileageRate

\* C21 (as claimed): the mileage rate used to value a time-based line is the
\* configured 'mileageRate' setting whenever that setting exists, for every
\* configured value >= 0, and 0.70 only when the setting is unset.
MileageRateResolution ==
  Written =>
    \A i \in 1..Len(invoices[response.id].items) :
       LET row == invoices[response.id].items[i]
       IN TimeBased(row) =>
            row.line_total =
              TimeBasedFormula(row, modifierMultiplier(row.rate_modifier_id),
                               ConfiguredMileageRate)

\* ------------------------------------------------------------ empty invoice
ZeroTotals == [subtotal |-> 0, discountAmount |-> 0, taxAmount |-> 0, total |-> 0]

\* C22: for an empty line list and any discount, tax rate, pricesIncludeTax and
\* rounding mode, calculateInvoiceTotals and calculatePerLineTotals return
\* subtotal = 0, discountAmount = 0, taxAmount = 0 and total = 0 (the functions
\* have no statement that raises).
EmptyInvoiceIsZero ==
  (calcOut.done /\ calcIn.items = <<>>) =>
     /\ Totals4(calcOut.totals) = ZeroTotals
     /\ Totals4(calcOut.perLine) = ZeroTotals
     /\ \A m \in RoundingModes : Totals4(calcOut.byMode[m]) = ZeroTotals

\* both functions were called with no line, a flat discount of 0.02, a tax rate
\* of 50 % and tax-inclusive prices
EmptyInvoiceWitness ==
  /\ calcOut.done
  /\ calcIn.items = <<>>
  /\ calcIn.discountAmount = 2
  /\ calcIn.taxRate = 50
  /\ calcIn.pricesIncludeTax
  /\ calcOut.totals.total = 0
  /\ calcOut.perLine.total = 0

\* ------------------------------------------------------ invoice lifecycle
\* one invoice of the stored customer, with or without a line, a due date in
\* the past and an explicit number, is created, edited, published and
\* unpublished
LifecycleCreates ==
  {Merge(Merge([items |-> l, customerId |-> 1], st), n) :
     l \in {<<>>, <<LegacyLine>>},
     st \in {NoFields, [status |-> "sent"], [dueDate |-> 0]},
     n \in {NoFields, [invoiceNumber |-> CustomNumber]}}

LifecycleUpdates ==
  {[items |-> <<OtherLine>>], [status |-> "draft"], [status |-> "sent"],
   [status |-> "paid"], [dueDate |-> 0], [dueDate |-> 2]}

\* an id that names no invoice
GhostInvoice == 98

CreateDraft ==
  /\ invoices = [i \in {} |-> 0]
  /\ \E data \in LifecycleCreates : createInvoice(data, FreshRand, FreshToken)

EditInvoice ==
  \E id \in DOMAIN invoices, data \in LifecycleUpdates : updateInvoice(id, data)

PublishInvoice == \E id \in DOMAIN invoices \cup {GhostInvoice} : publishInvoice(id)

UnpublishInvoice ==
  \E id \in DOMAIN invoices \cup {GhostInvoice}, token \in ShareTokens :
     unpublishInvoice(id, token)

NextLifecycle ==
  \/ CreateDraft
  \/ EditInvoice
  \/ PublishInvoice
  \/ UnpublishInvoice

SpecLifecycle == Init /\ [][NextLifecycle]_vars

\* the step is publishInvoice(id)
Publishes(id) == response'.op = "publishInvoice" /\ response'.id = id

\* C23 (as claimed): on an invoice stored as draft with at least one item,
\* publishInvoice sets the stored status to sent and, exactly when the invoice
\* number starts with "DRAFT-", replaces it with getNextInvoiceNumber(); on an
\* invoice that is already sent or paid it changes nothing; on an unknown
\* invoice or one with no items it throws and changes nothing; the share token
\* is never changed by publishInvoice.
PublishLifecycle ==
  [][\A id \in DOMAIN invoices \cup {GhostInvoice} :
       Publishes(id) =>
         /\ (/\ id \in DOMAIN invoices
             /\ invoices[id].status = "draft"
             /\ invoices[id].items # <<>>) =>
               /\ invoices'[id].status = "sent"
               /\ invoices'[id].invoice_number =
                    IF invoices[id].invoice_number.base = DraftBase
                    THEN getNextInvoiceNumber(invoices)
                    ELSE invoices[id].invoice_number
         /\ (id \in DOMAIN invoices /\ invoices[id].status \in {"sent", "paid"}) =>
               invoices' = invoices
         /\ (id \notin DOMAIN invoices \/ invoices[id].items = <<>>) =>
               response'.err # "none" /\ invoices' = invoices
         /\ \A i \in DOMAIN invoices :
               invoices'[i].share_token = invoices[i].share_token]_vars

\* what C27 says is frozen
Financials(row) ==
  [subtotal |-> row.subtotal, discount_amount |-> row.discount_amount,
   tax_amount |-> row.tax_amount, total |-> row.total, items |-> row.items]

\* the invoice bears a final number. createInvoice stores the explicit number
\* (here CustomNumber) or a placeholder, duplicateInvoice a placeholder;
\* a number of the legacy format is written only by publishInvoice and by
\* updateInvoice in the step that stores status sent or paid
HasFinalNumber(row) == row.invoice_number.base = LegacyBase

\* a final number appears only on an invoice that the same step stores as
\* sent or paid, so an invoice that bears one has been issued
FinalNumberMeansIssued ==
  [][\A id \in DOMAIN invoices' :
       (/\ HasFinalNumber(invoices'[id])
        /\ id \in DOMAIN invoices => ~HasFinalNumber(invoices[id])) =>
          /\ id \in DOMAIN invoices
          /\ invoices'[id].status \in {"sent", "paid"}]_vars

\* C27 (as claimed): once an invoice's stored status has become sent or paid,
\* its stored subtotal, discount_amount, tax_amount, total and line items are
\* never changed by any later sequence of updateInvoice, publishInvoice and
\* unpublishInvoice calls. Stated for the invoices that are known to have been
\* issued because they bear a final number: no step changes their financials,
\* whatever their stored status is by then.
IssuedTotalsNeverChange ==
  [][\A id \in DOMAIN invoices :
       HasFinalNumber(invoices[id]) =>
         Financials(invoices'[id]) = Financials(invoices[id])]_vars

\* C30 (as claimed): for every invoice whose stored status is draft, whatever
\* its due date, updateInvoice with new items is never rejected with the
\* issued-invoice error, and publishInvoice moves it to sent (it has a line);
\* the overdue status derived on read from a past due date never changes what
\* these operations do.
DraftsStayEditable ==
  [][\A id \in DOMAIN invoices :
       invoices[id].status = "draft" =>
         /\ (/\ response'.op = "updateInvoice"
             /\ response'.id = id
             /\ "items" \in DOMAIN response'.data) => response'.err # IssuedError
         /\ (Publishes(id) /\ invoices[id].items # <<>>) =>
               invoices'[id].status = "sent"]_vars

\* ------------------------------------------------- allocation of numbers
\* invoices are created with placeholder, allocated and explicit numbers and
\* published, the numbering pattern is changed, and the next number is asked for
LetterX == 33

\* explicit numbers in the legacy format: a short one, the largest one whose
\* suffix parseInt reads exactly, and one that ends in a letter
AllocationNumbers ==
  {InvoiceNumber(LegacyBase, <<7>>),
   InvoiceNumber(LegacyBase, TwoTo53),
   InvoiceNumber(LegacyBase, <<0, 0, 1, LetterX>>)}

\* '', 'INV-{YYYY}-{SEQ}' and 'INV-{YYYY}-{SEQ}X'
Patterns ==
  {NoPattern, [prefix |-> LegacyBase, rest |-> <<>>],
   [prefix |-> LegacyBase, rest |-> <<LetterX>>]}

AllocationCreates ==
  {[items |-> <<LegacyLine>>, customerId |-> 1]} \cup
  {[items |-> <<LegacyLine>>, customerId |-> 1, invoiceNumber |-> n] :
     n \in AllocationNumbers}

CreateAllocated ==
  /\ Cardinality(DOMAIN invoices) < MaxDocs
  /\ \E data \in AllocationCreates : createInvoice(data, FreshRand, FreshToken)

PublishAllocated == \E id \in DOMAIN invoices : publishInvoice(id)

ChangePattern == \E value \in Patterns : updatePattern(value)

NextNumber == nextNumber

NextAllocation ==
  \/ CreateAllocated
  \/ PublishAllocated
  \/ ChangePattern
  \/ NextNumber

SpecAllocation == Init /\ [][NextAllocation]_vars

\* the numeric suffixes of the invoice numbers that are the legacy base
\* followed only by digits
LegacySuffixes ==
  {ParseInt(invoices[i].invoice_number.suffix) :
     i \in {j \in DOMAIN invoices :
              /\ invoices[j].invoice_number.base = LegacyBase
              /\ invoices[j].invoice_number.suffix # <<>>
              /\ \A k \in 1..Len(invoices[j].invoice_number.suffix) :
                    invoices[j].invoice_number.suffix[k] \in 0..9}}

\* C25 (as claimed): getNextInvoiceNumber never returns a number in use: in
\* the legacy format (no pattern) the result is base + (1 + the largest
\* numeric suffix among the existing invoice numbers that are the base
\* followed only by digits), zero-padded to the configured width, and it
\* differs from the invoice number of every existing invoice; with a pattern
\* containing {SEQ} the result likewise differs from every existing number.
NextNumberNotInUse ==
  response.op = "nextNumber" =>
    /\ \A i \in DOMAIN invoices : invoices[i].invoice_number # response.next
    /\ settings.invoiceNumberPattern = NoPattern =>
         response.next =
           InvoiceNumber(LegacyBase, PadStart(Succ(MaxSeen(LegacySuffixes)), Padding))

\* ------------------------------------------- overlapping calls of handlers
\* publishInvoice and updateInvoice are async: a call runs until its next
\* await, where the other calls in flight can run. createInvoice is not async.
NoInvoice == [found |-> FALSE]

\* getInvoiceById(id) on the table tbl: the invoice with the status it reports
readInvoice(tbl, id) ==
  IF id \in DOMAIN tbl /\ tbl[id].customer_id \in customers
  THEN [found |-> TRUE, row |-> [tbl[id] EXCEPT !.status = derivedStatus(tbl[id])]]
  ELSE NoInvoice

\* the calls in flight without the k-th
Without(calls, k) ==
  [i \in 1..(Len(calls) - 1) |-> IF i < k THEN calls[i] ELSE calls[i + 1]]

\* publishInvoice up to "const invoice = await getInvoiceById(id)"
publishInvoiceBegin(id) ==
  /\ pending' = Append(pending, [op |-> "publishInvoice", id |-> id, data |-> <<>>,
                                  at |-> "read",
                                  invoice |-> readInvoice(invoices, id)])
  /\ UNCHANGED <<rate_modifiers, nextModifierId, settings, invoices, response,
                 calcIn, calcOut>>

\* publishInvoice from there to its end, with the invoice it has read
publishInvoiceResume(k) ==
  LET id == pending[k].id
      invoice == pending[k].invoice
  IN /\ pending[k].op = "publishInvoice"
     /\ pending' = Without(pending, k)
     /\ IF ~invoice.found
        THEN Failed("publishInvoice", id, "Invoice not found", <<>>)
        ELSE IF invoice.row.items = <<>>
        THEN Failed("publishInvoice", id, "Cannot publish invoice", <<>>)
        ELSE /\ invoices' =
                  IF invoice.row.status = "draft"
                  THEN [invoices EXCEPT ![id].status = "sent",
                                        ![id].invoice_number =
                          IF invoice.row.invoice_number.base = DraftBase
                          THEN getNextInvoiceNumber(invoices)
                          ELSE invoice.row.invoice_number]
                  ELSE invoices
             /\ response' = [op |-> "publishInvoice", id |-> id, err |-> "none",
                             perLine |-> FALSE, calculated |-> <<>>, data |-> <<>>]
     /\ UNCHANGED <<rate_modifiers, nextModifierId, settings, calcIn, calcOut>>

\* updateInvoice up to "const existing = await getInvoiceById(id)"
updateInvoiceBegin(id, data) ==
  /\ pending' = Append(pending, [op |-> "updateInvoice", id |-> id, data |-> data,
                                  at |-> "read",
                                  invoice |-> readInvoice(invoices, id)])
  /\ UNCHANGED <<rate_modifiers, nextModifierId, settings, invoices, response,
                 calcIn, calcOut>>

\* updateInvoice from there to "const current = await getInvoiceById(id)", or
\* to its end, for a request whose one key is status: the UPDATE writes the
\* new status, and what the call has read for the columns it does not COALESCE
updateInvoiceResume(k) ==
  LET id == pending[k].id
      data == pending[k].data
      existing == pending[k].invoice
      written == [invoices EXCEPT ![id] =
                    [@ EXCEPT !.status = data.status,
                              !.customer_id = existing.row.customer_id,
                              !.issue_date = existing.row.issue_date,
                              !.due_date = existing.row.due_date,
                              !.currency = existing.row.currency,
                              !.subtotal = existing.row.subtotal,
                              !.discount_amount = existing.row.discount_amount,
                              !.discount_percentage = existing.row.discount_percentage,
                              !.tax_rate = existing.row.tax_rate,
                              !.tax_amount = existing.row.tax_amount,
                              !.total = existing.row.total]]
  IN /\ pending[k].op = "updateInvoice"
     /\ pending[k].at = "read"
     /\ IF ~existing.found
        THEN /\ Failed("updateInvoice", id, "null", data)
             /\ pending' = Without(pending, k)
        ELSE IF data.status \in {"sent", "paid"} /\ existing.row.status = "draft"
        THEN /\ invoices' = written
             /\ pending' = [pending EXCEPT ![k].at = "reload",
                                           ![k].invoice = readInvoice(written, id)]
             /\ UNCHANGED response
        ELSE /\ invoices' = written
             /\ pending' = Without(pending, k)
             /\ response' = [op |-> "updateInvoice", id |-> id, err |-> "none",
                             perLine |-> FALSE, calculated |-> <<>>, data |-> data]
     /\ UNCHANGED <<rate_modifiers, nextModifierId, settings, calcIn, calcOut>>

\* updateInvoice from its second await to its end: the invoice that still had
\* a placeholder number when it was read again gets the next final number
updateInvoiceReload(k) ==
  LET id == pending[k].id
      current == pending[k].invoice
  IN /\ pending[k].op = "updateInvoice"
     /\ pending[k].at = "reload"
     /\ pending' = Without(pending, k)
     /\ invoices' =
          IF current.found /\ current.row.invoice_number.base = DraftBase
          THEN [invoices EXCEPT ![id].invoice_number = getNextInvoiceNumber(invoices)]
          ELSE invoices
     /\ response' = [op |-> "updateInvoice", id |-> id, err |-> "none",
                     perLine |-> FALSE, calculated |-> <<>>,
                     data |-> pending[k].data]
     /\ UNCHANGED <<rate_modifiers, nextModifierId, settings, calcIn, calcOut>>

\* up to MaxDocs drafts of the stored customer, and up to MaxCalls calls in
\* flight that publish them or mark them as sent
CreateConcurrent ==
  /\ Cardinality(DOMAIN invoices) < MaxDocs
  /\ createInvoice([items |-> <<LegacyLine>>, customerId |-> 1],
                   FreshRand, FreshToken)

BeginPublish ==
  /\ Len(pending) < MaxCalls
  /\ \E id \in DOMAIN invoices : publishInvoiceBegin(id)

ResumePublish == \E k \in 1..Len(pending) : publishInvoiceResume(k)

BeginUpdate ==
  /\ Len(pending) < MaxCalls
  /\ \E id \in DOMAIN invoices : updateInvoiceBegin(id, [status |-> "sent"])

ResumeUpdate == \E k \in 1..Len(pending) : updateInvoiceResume(k)

ReloadUpdate == \E k \in 1..Len(pending) : updateInvoiceReload(k)

NextConcurrent ==
  \/ CreateConcurrent
  \/ BeginPublish
  \/ ResumePublish
  \/ BeginUpdate
  \/ ResumeUpdate
  \/ ReloadUpdate

SpecConcurrent == Init /\ [][NextConcurrent]_vars

\* C24 (as claimed): for every interleaving, at await points, of publishInvoice
\* and updateInvoice calls, once an invoice is stored as sent with its final
\* number, the number is never replaced by a later getNextInvoiceNumber()
\* allocation; in particular two overlapping publishInvoice calls on the same
\* draft assign it one number, and overlapping calls on two different drafts
\* assign distinct numbers.
FinalNumberLocked ==
  [][/\ \A id \in DOMAIN invoices :
          (/\ invoices[id].status = "sent"
           /\ invoices[id].invoice_number.base # DraftBase) =>
             invoices'[id].invoice_number = invoices[id].invoice_number
     /\ Unique(invoices')]_vars

\* ------------------------------------------- stored totals and configuration
\* no line of the invoice has tax rows of its own
WithoutLineTaxes(row) ==
  \A i \in 1..Len(row.items) : row.items[i].taxes = <<>>

\* C26 (as claimed): in every reachable state after any sequence of
\* createInvoice and updateInvoice calls, each invoice without per-line taxes
\* has stored subtotal, discount_amount, tax_amount and total equal to the
\* totals computed from its stored item line totals with its own stored
\* discount_percentage, tax_rate and prices_include_tax.
StoredTotalsAgree ==
  \A id \in DOMAIN invoices :
     WithoutLineTaxes(invoices[id]) =>
       StoredTotals(invoices[id]) =
         recalculatedTotals(invoices[id].items, invoices[id].discount_percentage,
                            invoices[id].discount_amount, invoices[id].tax_rate,
                            invoices[id].prices_include_tax)

\* ------------------------------------------------------------ the edit form
\* the page of GET /invoices/[id]/edit hands the invoice to the editor: the
\* tax mode is "line" when some item has tax rows, and an item with exactly
\* one tax row shows its percent; mapItem shows quantity and unit price of a
\* legacy line as hours and rate. String() of these numbers and parseFloat /
\* Number of the posted text give the number back, "" is read as 0
mapItem(item) ==
  [hours |-> Coalesce(item.hours, Coalesce(item.quantity, 0)),
   rate |-> Coalesce(item.rate, Coalesce(item.unit_price, 0)),
   rateModifierId |-> item.rate_modifier_id,
   distance |-> item.distance,
   tax_percent |-> IF Len(item.taxes) = 1 THEN item.taxes[1].percent ELSE 0]

\* the fields the browser posts when the form is submitted as it was rendered:
\* per item description, hours, rate, rateModifierId, distance, tax_percent
\* and notes; no input is named item_i_quantity or item_i_unitPrice
InvoiceEditor(inv) ==
  [invoiceNumber |-> inv.invoice_number,
   currency |-> inv.currency,
   status |-> derivedStatus(inv),
   issueDate |-> inv.issue_date,
   dueDate |-> inv.due_date,
   taxMode |-> IF \E i \in 1..Len(inv.items) : Len(inv.items[i].taxes) > 0
               THEN "line" ELSE "invoice",
   taxRate |-> inv.tax_rate,
   pricesIncludeTax |-> inv.prices_include_tax,
   roundingMode |-> IF inv.rounding_mode = "total" THEN "total" ELSE "line",
   items |-> [i \in 1..Len(inv.items) |-> mapItem(inv.items[i])]]

\* the body handler.POST of the edit route sends to PUT /api/v1/invoices/:id:
\* quantity is parseFloat(form.get("item_i_quantity") || "1") and unitPrice
\* is parseFloat(form.get("item_i_unitPrice") || "0")
EditRequest(form) ==
  [currency |-> form.currency,
   status |-> form.status,
   taxRate |-> IF form.taxMode = "invoice" THEN form.taxRate ELSE 0,
   pricesIncludeTax |-> form.pricesIncludeTax,
   roundingMode |-> form.roundingMode,
   invoiceNumber |-> form.invoiceNumber,
   issueDate |-> form.issueDate,
   dueDate |-> form.dueDate,
   items |-> [i \in 1..Len(form.items) |->
                Item(1, 0, undefined, undefined, NoId, undefined,
                     IF form.taxMode = "line" /\ form.items[i].tax_percent > 0
                     THEN <<form.items[i].tax_percent>> ELSE <<>>)]]

\* GET renders the form only for an invoice that reads draft; POST answers 400
\* when no item is posted
SubmitEditForm(id) ==
  /\ Found(id)
  /\ derivedStatus(invoices[id]) = "draft"
  /\ invoices[id].items # <<>>
  /\ updateInvoice(id, EditRequest(InvoiceEditor(invoices[id])))

\* a time-based line of 1 hour at the standard modifier, without and with
\* mileage, and a legacy line with a per-line tax
HourlyLine == Item(undefined, undefined, 1, 3, standard, undefined, <<>>)
TravelLine == Item(undefined, undefined, 1, 3, standard, 1, <<>>)
TaxedLine == Item(1, 3, undefined, undefined, NoId, undefined, <<20>>)

EditorCreates ==
  {Merge([items |-> l, customerId |-> 1], c) :
     l \in {<<LegacyLine>>, <<HourlyLine>>, <<TravelLine>>, <<TaxedLine>>,
            <<LegacyLine, HourlyLine>>},
     c \in {NoFields, [taxRate |-> 50], [discountPercentage |-> 50],
            [status |-> "sent"]}}

CreateEditable ==
  /\ Cardinality(DOMAIN invoices) < MaxDocs
  /\ \E data \in EditorCreates : createInvoice(data, FreshRand, FreshToken)

EditUnchanged == \E id \in DOMAIN invoices : SubmitEditForm(id)

DuplicateEditable ==
  /\ Cardinality(DOMAIN invoices) < MaxDocs
  /\ \E id \in DOMAIN invoices \cup {GhostInvoice} :
       duplicateInvoice(id, FreshRand, FreshToken)

NextEditor ==
  \/ CreateEditable
  \/ EditUnchanged
  \/ DuplicateEditable

SpecEditor == Init /\ [][NextEditor]_vars

\* what the claim compares before and after the edit
EditedFields(row) ==
  [items |-> [i \in 1..Len(row.items) |->
                [hours |-> row.items[i].hours,
                 rate |-> row.items[i].rate,
                 rateModifierId |-> row.items[i].rate_modifier_id,
                 distance |-> row.items[i].distance,
                 lineTotal |-> row.items[i].line_total]],
   subtotal |-> row.subtotal,
   total |-> row.total]

\* C28 (as claimed): opening a draft invoice in the editor and submitting the
\* edit form without changing any input leaves every item's hours, rate,
\* rateModifierId, distance and lineTotal, and the invoice's subtotal and
\* total, equal to their values before the edit.
EditingIsIdempotent ==
  [][\A id \in DOMAIN invoices :
       (/\ response'.op = "updateInvoice"
        /\ response'.id = id
        /\ response'.err = "none") =>
          EditedFields(invoices'[id]) = EditedFields(invoices[id])]_vars

\* the line totals of an invoice in their order
LineTotals(row) == [i \in 1..Len(row.items) |-> row.items[i].line_total]

\* C29 (as claimed): the copy duplicateInvoice makes is a new invoice with a
\* fresh id and share token, status draft and a "DRAFT-" number, its items
\* carry the same lineTotal values in the same order, its stored subtotal is
\* round2 of the sum of those line totals, and for an original with no
\* discount, tax-exclusive pricing and rounding mode line its total equals
\* the original's total.
DuplicatePreservesAmounts ==
  [][\A id \in DOMAIN invoices :
       (/\ duplicateInvoice(id, FreshRand, FreshToken)
        /\ response'.err = "none") =>
          LET original == invoices[id]
              copy == invoices'[response'.id]
          IN /\ response'.id \notin DOMAIN invoices
             /\ ~TokenInUse(copy.share_token)
             /\ copy.status = "draft"
             /\ copy.invoice_number.base = DraftBase
             /\ LineTotals(copy) = LineTotals(original)
             /\ copy.subtotal = r2(Int2Rat(SumSeq(LineTotals(copy))))
             /\ (/\ original.discount_percentage = 0
                 /\ original.discount_amount = 0
                 /\ ~original.prices_include_tax
                 /\ original.rounding_mode = "line") =>
                   copy.total = original.total]_vars

====
